---- MODULE Spec2Model ----
(***************************************************************************)
(* A model of hatchet's GraphFrame (src/hatchet/graphframe.py): a call     *)
(* graph paired with a table of per-node metrics, and the operations that  *)
(* rewrite the pair: squash, subtree_sum / subgraph_sum /                  *)
(* update_inclusive_columns, unify and the arithmetic operators.           *)
(*                                                                         *)
(* Node and Graph (hatchet/node.py, hatchet/graph.py) are not among the    *)
(* source files; their operations (traverse, is_tree, normalize, union,    *)
(* copy) are modelled from the specification text.  pandas and numpy are   *)
(* external libraries; the few table operations the code uses (label       *)
(* selection, column assignment, sum, groupby-aggregate, add, update,      *)
(* append) are modelled by what they do to a table.                        *)
(***************************************************************************)
EXTENDS Integers, Sequences, FiniteSets, TLC

VARIABLES
    gf,     \* the GraphFrame the caller holds ("self" of the next call)
    other,  \* a second GraphFrame, the right operand of unify / add
    pre,    \* history: gf as it was before the last call
    preo,   \* history: other as it was before the last call
    rew,    \* squash's local graph after rewiring, before normalize()
    ret,    \* the outcome of the last call: [frame, err] and call-specific fields
    op,     \* the name of the last call ("init" before any call)
    calls,  \* number of calls made so far
    heap,   \* the frame, table and graph objects, where aliasing matters
    heap0   \* history: heap as it was before the last call

vars == <<gf, other, pre, preo, rew, ret, op, calls, heap, heap0>>

(***************************************************************************)
(* Bounds of the model.                                                    *)
(***************************************************************************)
MaxNodes == 4
MaxCalls == 2

Nodes == 1..MaxNodes
Ranks == {0, 1}

(***************************************************************************)
(* Generic helpers.                                                        *)
(***************************************************************************)
Range(s) == {s[i] : i \in DOMAIN s}

Min(a, b) == IF a <= b THEN a ELSE b

RECURSIVE SortedSeq(_)
SortedSeq(S) ==
    IF S = {} THEN <<>>
    ELSE LET m == CHOOSE x \in S : \A y \in S : x <= y
         IN  <<m>> \o SortedSeq(S \ {m})

RECURSIVE SetSum(_, _)
\* sum of f[x] over x in S
SetSum(f, S) ==
    IF S = {} THEN 0
    ELSE LET x == CHOOSE y \in S : TRUE
         IN  f[x] + SetSum(f, S \ {x})

None == <<"<None>">>     \* Python's None passed for a list argument
NoGraph == [roots |-> <<>>, children |-> <<>>, parents |-> <<>>, frame |-> <<>>]

(***************************************************************************)
(* Graph and Node.  A graph is a record: roots (list of node ids),         *)
(* children and parents (node id -> list of node ids) and frame            *)
(* (node id -> Frame).  Node ids stand for the identity of Node objects.   *)
(***************************************************************************)
GraphNodes(g) == DOMAIN g.children

\* Node.traverse(order="pre"): depth-first, each node yielded once (visited set).
\* A loop over a list hands its state from one step to the next; each step
\* opens with a CASE on what holds of the state it receives (here: no node is
\* listed twice), which makes TLC evaluate the step before it before going on.
RECURSIVE PreVisit(_, _, _), PreList(_, _, _)
PreVisit(g, n, acc) ==
    IF n \in Range(acc) THEN acc
    ELSE PreList(g, g.children[n], Append(acc, n))
PreList(g, list, acc) ==
    CASE Len(acc) = Cardinality(Range(acc)) ->
    IF list = <<>> THEN acc
    ELSE PreList(g, Tail(list), PreVisit(g, Head(list), acc))

NodeTraverse(g, n) == PreVisit(g, n, <<>>)

\* Graph.traverse(order="pre"): the roots in order, one visited set for all.
GraphTraverse(g) == PreList(g, g.roots, <<>>)

\* Graph.traverse(order="post"): children before their parent.
RECURSIVE PostVisit(_, _, _), PostList(_, _, _)
PostVisit(g, n, st) ==
    IF n \in st.vis THEN st
    ELSE LET s1 == PostList(g, g.children[n], [st EXCEPT !.vis = @ \cup {n}])
         IN  [s1 EXCEPT !.out = Append(@, n)]
PostList(g, list, st) ==
    CASE Range(st.out) \subseteq st.vis ->
    IF list = <<>> THEN st
    ELSE PostList(g, Tail(list), PostVisit(g, Head(list), st))

GraphTraversePost(g) == PostList(g, g.roots, [vis |-> {}, out |-> <<>>]).out

Reachable(g) == Range(GraphTraverse(g))

\* Graph.is_tree(): every non-root node has exactly one parent.
IsTree(g) == \A n \in Reachable(g) : Len(g.parents[n]) <= 1

(***************************************************************************)
(* The DataFrame.  A table is a record: index_names (<<"node">> or         *)
(* <<"node", "rank">>), columns (set of names) and rows (key -> row), a    *)
(* key being a tuple whose first component is the node and a row a         *)
(* function from column name to value.                                     *)
(***************************************************************************)
IsMultiIndex(df) == Len(df.index_names) > 1

Keys(df) == DOMAIN df.rows

\* set(df["node"]): the distinct nodes among the row keys
KeyNodes(df) == {k[1] : k \in Keys(df)}

\* rows selected by df.loc[node]
LocNode(df, n) == {k \in Keys(df) : k[1] = n}

\* np.sum over column c of the rows df.loc[list]: a label listed twice is
\* selected twice
RECURSIVE ListSum(_, _, _)
ListSum(df, list, c) ==
    IF list = <<>> THEN 0
    ELSE SetSum([k \in LocNode(df, Head(list)) |-> df.rows[k][c]],
                LocNode(df, Head(list)))
         + ListSum(df, Tail(list), c)

\* df[out] = df[col]
AssignColumn(df, out, col) ==
    [df EXCEPT
       !.columns = @ \cup {out},
       !.rows = [k \in DOMAIN @ |->
                   [c \in DOMAIN @[k] \cup {out} |->
                      IF c = out THEN @[k][col] ELSE @[k][c]]]]

\* df.loc[keys, cols] = vals, vals[i] going to column cols[i]
SetLoc(df, keys, cols, vals) ==
    [df EXCEPT
       !.rows = [k \in DOMAIN @ |->
                   IF k \notin keys THEN @[k]
                   ELSE [c \in DOMAIN @[k] |->
                           IF \E i \in DOMAIN cols : cols[i] = c
                           THEN vals[CHOOSE i \in DOMAIN cols : cols[i] = c]
                           ELSE @[k][c]]]]

(***************************************************************************)
(* GraphFrame: [gid, graph, dataframe, exc_metrics, inc_metrics].  gid is  *)
(* the identity of the Graph object the frame references (two frames share *)
(* a Graph iff their gid is equal).                                        *)
(***************************************************************************)

\* "%s (inc)" % s
IncName(s) ==
    CASE s = "time" -> "time (inc)"
      [] s = "time (inc)" -> "time (inc) (inc)"
      [] OTHER -> "? (inc)"

\* [f(x) for x in list]
MapSeq(list, F(_)) == [i \in DOMAIN list |-> F(list[i])]

(***************************************************************************)
(* _init_sum_columns, subtree_sum, subgraph_sum, update_inclusive_columns. *)
(* A call's outcome is [frame |-> self after the call, err |-> the         *)
(* exception raised or "none"].                                            *)
(***************************************************************************)

\* for col, out in zip(columns, out_columns): df[out] = df[col]
RECURSIVE ZipAssign(_, _, _, _)
ZipAssign(df, columns, out_columns, i) ==
    IF i > Min(Len(columns), Len(out_columns)) THEN df
    ELSE ZipAssign(AssignColumn(df, out_columns[i], columns[i]),
                   columns, out_columns, i + 1)

InitSumColumns(df, columns, out_columns) ==
    LET outs == IF out_columns = None THEN columns ELSE out_columns
        df1  == IF out_columns = None THEN df
                ELSE ZipAssign(df, columns, out_columns, 1)
    IN  [df  |-> df1,
         out |-> outs,
         err |-> IF Len(columns) # Len(outs) THEN "ValueError" ELSE "none"]

\* subtree_sum's loop with the node itself left out of the selection:
\* df.loc[node.children, out_columns]
RECURSIVE SubtreeLoopChildrenOnly(_, _, _, _)
SubtreeLoopChildrenOnly(df, g, order, out) ==
    CASE Range(out) \subseteq df.columns ->
    IF order = <<>> THEN df
    ELSE LET node == Head(order)
             sel  == g.children[node]
             sums == [i \in DOMAIN out |-> ListSum(df, sel, out[i])]
             df1  == IF g.children[node] # <<>>
                     THEN SetLoc(df, LocNode(df, node), out, sums)
                     ELSE df
         IN  SubtreeLoopChildrenOnly(df1, g, Tail(order), out)

\* the loop of subtree_sum over graph.traverse(order="post")
RECURSIVE SubtreeLoop(_, _, _, _)
SubtreeLoop(df, g, order, out) ==
    CASE Range(out) \subseteq df.columns ->
    IF order = <<>> THEN df
    ELSE LET node == Head(order)
             sel  == <<node>> \o g.children[node]
             sums == [i \in DOMAIN out |-> ListSum(df, sel, out[i])]
             df1  == IF g.children[node] # <<>>
                     THEN SetLoc(df, LocNode(df, node), out, sums)
                     ELSE df
         IN  SubtreeLoop(df1, g, Tail(order), out)

SubtreeSum(f, columns, out_columns) ==
    LET init == InitSumColumns(f.dataframe, columns, out_columns)
    IN  IF init.err # "none"
        THEN [frame |-> [f EXCEPT !.dataframe = init.df], err |-> init.err]
        ELSE [frame |-> [f EXCEPT !.dataframe =
                           SubtreeLoop(init.df, f.graph,
                                       GraphTraversePost(f.graph), init.out)],
              err |-> "none"]

\* function(df.loc[(subgraph_nodes, i), c]): the rows of the listed nodes
\* whose remaining index levels equal i
RankSum(df, sub, i, c) ==
    LET sel == {k \in Keys(df) : k[1] \in Range(sub) /\ Tail(k) = i}
    IN  SetSum([k \in sel |-> df.rows[k][c]], sel)

\* one iteration of subgraph_sum's loop, for one node
SubgraphStep(df, g, node, columns, out) ==
    LET sub == NodeTraverse(g, node)
    IN  IF IsMultiIndex(df)
        THEN [df EXCEPT
                !.rows = [k \in DOMAIN @ |->
                            IF k[1] # node THEN @[k]
                            ELSE [c \in DOMAIN @[k] |->
                                    IF \E j \in DOMAIN out : out[j] = c
                                    THEN RankSum(df, sub, Tail(k),
                                           columns[CHOOSE j \in DOMAIN out : out[j] = c])
                                    ELSE @[k][c]]]]
        ELSE SetLoc(df, LocNode(df, node), out,
                    [j \in DOMAIN out |-> ListSum(df, sub, columns[j])])

\* the loop of subgraph_sum over graph.traverse()
RECURSIVE SubgraphLoop(_, _, _, _, _)
SubgraphLoop(df, g, order, columns, out) ==
    CASE Range(out) \subseteq df.columns ->
    IF order = <<>> THEN df
    ELSE SubgraphLoop(SubgraphStep(df, g, Head(order), columns, out),
                      g, Tail(order), columns, out)

\* subgraph_sum below its is_tree() dispatch: the per-node re-traversal
GeneralSum(f, columns, out_columns) ==
    LET init == InitSumColumns(f.dataframe, columns, out_columns)
    IN  IF init.err # "none"
        THEN [frame |-> [f EXCEPT !.dataframe = init.df], err |-> init.err]
        ELSE [frame |-> [f EXCEPT !.dataframe =
                           SubgraphLoop(init.df, f.graph,
                                        GraphTraverse(f.graph), columns, init.out)],
              err |-> "none"]

SubgraphSum(f, columns, out_columns) ==
    IF IsTree(f.graph)
    THEN SubtreeSum(f, columns, out_columns)
    ELSE GeneralSum(f, columns, out_columns)

UpdateInclusiveColumns(f) ==
    LET inc == MapSeq(f.exc_metrics, IncName)
    IN  SubgraphSum([f EXCEPT !.inc_metrics = inc], f.exc_metrics, inc)

(***************************************************************************)
(* squash().  New nodes are copies (Node.copy(): same frame, no edges) of  *)
(* the nodes among the table's keys; the copy of old node n of a graph     *)
(* whose ids end at b gets the id b + n.  None (no node) is 0.             *)
(***************************************************************************)
MaxId(g) == IF GraphNodes(g) = {} THEN 0
            ELSE CHOOSE m \in GraphNodes(g) : \A n \in GraphNodes(g) : n <= m

\* old_to_new = {n: n.copy() for n in set(self.dataframe["node"])}
OldToNew(f) == [n \in KeyNodes(f.dataframe) |-> MaxId(f.graph) + n]

\* rewire's first loop without n.add_parent(new_parent)
ConnectNoBackLink(st, n, new_parent) ==
    IF new_parent # 0
    THEN IF n \notin Range(st.children[new_parent])
         THEN [st EXCEPT !.children[new_parent] = Append(@, n)]
         ELSE st
    ELSE IF n \notin Range(st.roots)
         THEN [st EXCEPT !.roots = Append(@, n)]
         ELSE st

\* the loop body without "elif n not in new_roots": every arrival without a
\* parent appends a root
ConnectAlwaysAppendsRoot(st, n, new_parent) ==
    IF new_parent # 0
    THEN IF n \notin Range(st.children[new_parent])
         THEN [st EXCEPT !.children[new_parent] = Append(@, n),
                         !.parents[n] = Append(@, new_parent)]
         ELSE st
    ELSE [st EXCEPT !.roots = Append(@, n)]

\* the body of rewire's first loop for one n of connections[node]:
\* new_parent.add_child(n); n.add_parent(new_parent), or new_roots.append(n)
Connect(st, n, new_parent) ==
    IF new_parent # 0
    THEN IF n \notin Range(st.children[new_parent])
         THEN [st EXCEPT !.children[new_parent] = Append(@, n),
                         !.parents[n] = Append(@, new_parent)]
         ELSE st
    ELSE IF n \notin Range(st.roots)
         THEN [st EXCEPT !.roots = Append(@, n)]
         ELSE st

\* for n in connections[node]: ...   (the set is walked in id order)
RECURSIVE ConnectAll(_, _, _)
ConnectAll(st, list, new_parent) ==
    IF list = <<>> THEN st
    ELSE ConnectAll(Connect(st, Head(list), new_parent), Tail(list), new_parent)

RECURSIVE RewireChildren(_, _, _, _, _, _)

\* rewire without "connections[node] |= transitive": a removed node reached
\* again offers nothing to connect
RewireNoMemo(g, o2n, node, new_parent, st) ==
    LET st1      == ConnectAll(st, SortedSeq(st.connections[node]), new_parent)
        new_node == IF node \in DOMAIN o2n THEN o2n[node] ELSE 0
        rec      == IF node \notin st1.visited
                    THEN RewireChildren(g, o2n, g.children[node],
                                        IF new_node # 0 THEN new_node ELSE new_parent,
                                        [st1 EXCEPT !.visited = @ \cup {node}], {})
                    ELSE [st |-> st1, result |-> {}]
    IN  IF new_node # 0
        THEN [st |-> rec.st, result |-> {new_node}]
        ELSE [st |-> rec.st, result |-> rec.st.connections[node] \cup rec.result]

\* rewire(node, new_parent, visited); st holds connections, visited and the
\* edges and roots made so far; the value is [st, result], result being the
\* set rewire returns.
RECURSIVE Rewire(_, _, _, _, _)
Rewire(g, o2n, node, new_parent, st) ==
    LET st1      == ConnectAll(st, SortedSeq(st.connections[node]), new_parent)
        new_node == IF node \in DOMAIN o2n THEN o2n[node] ELSE 0
        rec      == IF node \notin st1.visited
                    THEN RewireChildren(g, o2n, g.children[node],
                                        IF new_node # 0 THEN new_node ELSE new_parent,
                                        [st1 EXCEPT !.visited = @ \cup {node}], {})
                    ELSE [st |-> st1, result |-> {}]
    IN  IF new_node # 0
        THEN [st |-> rec.st, result |-> {new_node}]
        ELSE LET c == rec.st.connections[node] \cup rec.result
             IN  [st |-> [rec.st EXCEPT !.connections[node] = c], result |-> c]

\* for child in node.children: transitive |= rewire(child, ...)
RewireChildren(g, o2n, list, parent, st, transitive) ==
    CASE st.visited \subseteq DOMAIN st.connections /\ transitive \subseteq Range(o2n) ->
    IF list = <<>> THEN [st |-> st, result |-> transitive]
    ELSE LET r == Rewire(g, o2n, Head(list), parent, st)
         IN  RewireChildren(g, o2n, Tail(list), parent, r.st,
                            transitive \cup r.result)

\* for root in self.graph.roots: rewire(root, None, visited)
RECURSIVE RewireRoots(_, _, _, _)
RewireRoots(g, o2n, list, st) ==
    CASE st.visited \subseteq DOMAIN st.connections ->
    IF list = <<>> THEN st
    ELSE RewireRoots(g, o2n, Tail(list), Rewire(g, o2n, Head(list), 0, st).st)

\* the graph squash holds after the rewiring loop: Graph(new_roots)
RewiredGraph(f) ==
    LET g    == f.graph
        o2n  == OldToNew(f)
        new  == Range(o2n)
        st0  == [connections |-> [n \in GraphNodes(g) \cup DOMAIN o2n |->
                                    IF n \in DOMAIN o2n THEN {o2n[n]} ELSE {}],
                 visited     |-> {},
                 children    |-> [n \in new |-> <<>>],
                 parents     |-> [n \in new |-> <<>>],
                 roots       |-> <<>>]
        st   == RewireRoots(g, o2n, g.roots, st0)
    IN  [roots    |-> st.roots,
         children |-> st.children,
         parents  |-> st.parents,
         frame    |-> [n \in new |->
                         g.frame[CHOOSE o \in DOMAIN o2n : o2n[o] = n]]]

(***************************************************************************)
(* Graph.normalize(): merges sibling nodes (children of one parent, or     *)
(* roots) that carry the same frame, until none are left; the value is the *)
(* normalized graph and the mapping merged-away node -> surviving node.    *)
(***************************************************************************)
\* list with b replaced by a, later repeats dropped
RECURSIVE ReplaceIn(_, _, _, _)
ReplaceIn(list, a, b, acc) ==
    IF list = <<>> THEN acc
    ELSE LET x == IF Head(list) = b THEN a ELSE Head(list)
         IN  ReplaceIn(Tail(list), a, b,
                       IF x \in Range(acc) THEN acc ELSE Append(acc, x))

SiblingLists(g) == {g.roots} \cup {g.children[n] : n \in Reachable(g)}

DuplicatePairs(g) ==
    {pr \in GraphNodes(g) \X GraphNodes(g) :
        /\ pr[1] < pr[2]
        /\ g.frame[pr[1]] = g.frame[pr[2]]
        /\ \E l \in SiblingLists(g) : pr[1] \in Range(l) /\ pr[2] \in Range(l)}

\* merge node b into its sibling a
MergeInto(g, a, b) ==
    LET keep == GraphNodes(g) \ {b}
    IN  [roots    |-> ReplaceIn(g.roots, a, b, <<>>),
         children |-> [n \in keep |->
                         ReplaceIn(IF n = a THEN g.children[a] \o g.children[b]
                                   ELSE g.children[n], a, b, <<>>)],
         parents  |-> [n \in keep |->
                         ReplaceIn(IF n = a THEN g.parents[a] \o g.parents[b]
                                   ELSE g.parents[n], a, b, <<>>)],
         frame    |-> [n \in keep |-> g.frame[n]]]

RECURSIVE NormalizeLoop(_, _)
NormalizeLoop(g, merges) ==
    IF DuplicatePairs(g) = {} THEN [graph |-> g, merges |-> merges]
    ELSE LET pr == CHOOSE x \in DuplicatePairs(g) :
                      \A y \in DuplicatePairs(g) :
                          x[1] < y[1] \/ (x[1] = y[1] /\ x[2] <= y[2])
             a  == pr[1]
             b  == pr[2]
         IN  NormalizeLoop(MergeInto(g, a, b),
                           [n \in DOMAIN merges \cup {b} |->
                              IF n = b THEN a
                              ELSE IF merges[n] = b THEN a ELSE merges[n]])

Normalize(g) == NormalizeLoop(g, <<>>)

\* the table re-keyed without the merges: n instead of merges.get(n, n)
MergedForgotten(merges, n) == n

\* merges.get(n, n)
Merged(merges, n) == IF n \in DOMAIN merges THEN merges[n] ELSE n

\* the group-by with lambda x: x.iloc[0] for every column, metric or not
GroupByIndexFirst(df, rekey, metrics) ==
    LET NewKey(k) == <<rekey[k[1]]>> \o Tail(k)
        newkeys   == {NewKey(k) : k \in Keys(df)}
        Src(nk)   == {k \in Keys(df) : NewKey(k) = nk}
        First(nk) == CHOOSE k \in Src(nk) : \A j \in Src(nk) :
                        k[1] < j[1] \/ k = j
    IN  [df EXCEPT !.rows = [nk \in newkeys |-> df.rows[First(nk)]]]

\* df.groupby(index_names).agg(agg_dict) after the node of every key has been
\* replaced through rekey: rows that share a key become one row, np.sum for
\* the metric columns and the first row's value for the others
GroupByIndexAgg(df, rekey, metrics) ==
    LET NewKey(k) == <<rekey[k[1]]>> \o Tail(k)
        newkeys   == {NewKey(k) : k \in Keys(df)}
        Src(nk)   == {k \in Keys(df) : NewKey(k) = nk}
        First(nk) == CHOOSE k \in Src(nk) : \A j \in Src(nk) :
                        k[1] < j[1] \/ k = j
    IN  [df EXCEPT
           !.rows = [nk \in newkeys |->
                       [c \in df.columns |->
                          IF c \in metrics
                          THEN SetSum([k \in Src(nk) |-> df.rows[k][c]], Src(nk))
                          ELSE df.rows[First(nk)][c]]]]

\* squash(): [rewired |-> the local graph before normalize(), rekey |-> old
\* node -> node of the new table, frame |-> the GraphFrame returned, err], the
\* fields in the order squash computes them
Squash(f) ==
    LET o2n    == OldToNew(f)
        graph  == RewiredGraph(f)
        norm   == Normalize(graph)
        rekey  == [n \in DOMAIN o2n |-> Merged(norm.merges, o2n[n])]
        agg_df == GroupByIndexAgg(f.dataframe, rekey,
                                  Range(f.exc_metrics) \cup Range(f.inc_metrics))
        new_gf == [gid |-> f.gid + 1, graph |-> norm.graph, dataframe |-> agg_df,
                   exc_metrics |-> f.exc_metrics, inc_metrics |-> f.inc_metrics]
        upd    == UpdateInclusiveColumns(new_gf)
    IN  [rewired |-> graph, rekey |-> rekey, frame |-> upd.frame, err |-> upd.err]

(***************************************************************************)
(* Graph.union(other, node_map): a synchronized traversal from the roots   *)
(* that unifies the nodes of the two graphs that carry the same frame at   *)
(* the same position and copies the others.  The value is the union graph  *)
(* and node_map, old node -> surviving node, for the nodes of both graphs. *)
(***************************************************************************)
\* the node of list that carries frame fr in graph g, or None
WithFrame(g, list, fr) ==
    IF \E i \in DOMAIN list : g.frame[list[i]] = fr
    THEN list[CHOOSE i \in DOMAIN list : g.frame[list[i]] = fr]
    ELSE 0

\* the pairs (a, b) to visit below one position: every node of la with its
\* match in lb (or None), then the nodes of lb without a match in la
MatchPairs(g1, g2, la, lb) ==
    [i \in DOMAIN la |-> <<la[i], WithFrame(g2, lb, g1.frame[la[i]])>>]
    \o [i \in 1..Len(SelectSeq(lb, LAMBDA y : WithFrame(g1, la, g2.frame[y]) = 0))
          |-> <<0, SelectSeq(lb, LAMBDA y : WithFrame(g1, la, g2.frame[y]) = 0)[i]>>]

RECURSIVE UnionVisit(_, _, _, _, _), UnionPairs(_, _, _, _, _)
UnionVisit(g1, g2, pr, parent, st) ==
    LET a   == pr[1]
        b   == pr[2]
        id  == st.next
        st1 == [next     |-> id + 1,
                roots    |-> IF parent = 0 THEN Append(st.roots, id) ELSE st.roots,
                children |-> [n \in DOMAIN st.children \cup {id} |->
                                IF n = id THEN <<>>
                                ELSE IF n = parent THEN Append(st.children[n], id)
                                ELSE st.children[n]],
                parents  |-> [n \in DOMAIN st.parents \cup {id} |->
                                IF n # id THEN st.parents[n]
                                ELSE IF parent = 0 THEN <<>> ELSE <<parent>>],
                frame    |-> [n \in DOMAIN st.frame \cup {id} |->
                                IF n # id THEN st.frame[n]
                                ELSE IF a # 0 THEN g1.frame[a] ELSE g2.frame[b]],
                node_map |-> [n \in DOMAIN st.node_map \cup ({a, b} \ {0}) |->
                                IF n \in {a, b} THEN id ELSE st.node_map[n]]]
    IN  UnionPairs(g1, g2,
                   MatchPairs(g1, g2,
                              IF a # 0 THEN g1.children[a] ELSE <<>>,
                              IF b # 0 THEN g2.children[b] ELSE <<>>),
                   id, st1)
UnionPairs(g1, g2, pairs, parent, st) ==
    IF pairs = <<>> THEN st
    ELSE UnionPairs(g1, g2, Tail(pairs), parent,
                    UnionVisit(g1, g2, Head(pairs), parent, st))

Union(g1, g2) ==
    LET st == UnionPairs(g1, g2, MatchPairs(g1, g2, g1.roots, g2.roots), 0,
                         [next     |-> MaxId(g1) + MaxId(g2) + 1,
                          roots    |-> <<>>,
                          children |-> <<>>,
                          parents  |-> <<>>,
                          frame    |-> <<>>,
                          node_map |-> <<>>])
    IN  [graph    |-> [roots |-> st.roots, children |-> st.children,
                       parents |-> st.parents, frame |-> st.frame],
         node_map |-> st.node_map]

(***************************************************************************)
(* copy, unify, _insert_missing_rows, _operator and add.                   *)
(***************************************************************************)
\* GraphFrame.copy(): a new frame on the same Graph with a copy of the table
\* and of the metric lists
Copy(f) ==
    [gid         |-> f.gid,
     graph       |-> f.graph,
     dataframe   |-> [index_names |-> f.dataframe.index_names,
                      columns     |-> f.dataframe.columns,
                      rows        |-> f.dataframe.rows],
     exc_metrics |-> f.exc_metrics,
     inc_metrics |-> f.inc_metrics]

\* list(set().union(exc, inc, other.exc, other.inc))
AllMetrics(a, b) ==
    Range(a.exc_metrics) \cup Range(a.inc_metrics)
        \cup Range(b.exc_metrics) \cup Range(b.inc_metrics)

\* df["node"] = df["node"].apply(lambda x: node_map[id(x)])
Rekey(df, node_map) ==
    [df EXCEPT
       !.rows = [nk \in {<<node_map[k[1]]>> \o Tail(k) : k \in DOMAIN @} |->
                   @[CHOOSE k \in DOMAIN @ : <<node_map[k[1]]>> \o Tail(k) = nk]]]

\* df.join(new_df) with new_df["_missing_node"] = ""
JoinMissingColumn(df) ==
    [df EXCEPT
       !.columns = @ \cup {"_missing_node"},
       !.rows = [k \in DOMAIN @ |->
                   [c \in DOMAIN @[k] \cup {"_missing_node"} |->
                      IF c = "_missing_node" THEN "" ELSE @[k][c]]]]

\* _insert_missing_rows without the loop that zeroes the metrics of the rows
\* taken from other
InsertMissingRowsKeepValues(a, b) ==
    LET sdf == a.dataframe
        odf == b.dataframe
        other_not_in_self == Keys(odf) \ Keys(sdf)
        self_not_in_other == Keys(sdf) \ Keys(odf)
        joined == IF self_not_in_other # {} \/ other_not_in_self # {}
                  THEN JoinMissingColumn(sdf) ELSE sdf
    IN  [joined EXCEPT
           !.columns = @ \cup odf.columns,
           !.rows = [k \in DOMAIN @ \cup other_not_in_self |->
                       IF k \in other_not_in_self
                       THEN [c \in odf.columns \cup {"_missing_node"} |->
                               IF c = "_missing_node" THEN "R" ELSE odf.rows[k][c]]
                       ELSE IF k \in self_not_in_other
                       THEN [@[k] EXCEPT !["_missing_node"] = "L"]
                       ELSE @[k]]]

\* _insert_missing_rows(other): self's table after the call
InsertMissingRows(a, b) ==
    LET sdf == a.dataframe
        odf == b.dataframe
        all_metrics       == AllMetrics(a, b)
        other_not_in_self == Keys(odf) \ Keys(sdf)
        self_not_in_other == Keys(sdf) \ Keys(odf)
        joined == IF self_not_in_other # {} \/ other_not_in_self # {}
                  THEN JoinMissingColumn(sdf) ELSE sdf
        marked == [joined EXCEPT
                     !.rows = [k \in DOMAIN @ |->
                                 IF k \in self_not_in_other
                                 THEN [@[k] EXCEPT !["_missing_node"] = "L"]
                                 ELSE @[k]]]
        \* the rows of other that self lacks: metrics 0, marked "R"
        NewRow(k) == [c \in odf.columns \cup all_metrics \cup {"_missing_node"} |->
                        IF c \in all_metrics THEN 0
                        ELSE IF c = "_missing_node" THEN "R"
                        ELSE odf.rows[k][c]]
    IN  \* self.dataframe.append(other_not_in_self, sort=True)
        [marked EXCEPT
           !.columns = IF other_not_in_self # {}
                       THEN @ \cup odf.columns \cup all_metrics ELSE @,
           !.rows = [k \in DOMAIN @ \cup other_not_in_self |->
                       IF k \in other_not_in_self THEN NewRow(k) ELSE @[k]]]

\* unify without the early return for operands that share their Graph
UnifyAlways(a, b) ==
    LET u  == Union(a.graph, b.graph)
        a1 == [a EXCEPT !.dataframe = Rekey(@, u.node_map)]
        b1 == [b EXCEPT !.dataframe = Rekey(@, u.node_map)]
        a2 == [a1 EXCEPT !.dataframe = InsertMissingRows(a1, b1)]
        g  == IF a.gid > b.gid THEN a.gid + 1 ELSE b.gid + 1
    IN  [self  |-> [a2 EXCEPT !.graph = u.graph, !.gid = g],
         other |-> [b1 EXCEPT !.graph = u.graph, !.gid = g]]

\* unify without the assignment other.graph = union_graph
UnifyForgetsOther(a, b) ==
    IF a.gid = b.gid
    THEN [self |-> a, other |-> b]
    ELSE LET u  == Union(a.graph, b.graph)
             a1 == [a EXCEPT !.dataframe = Rekey(@, u.node_map)]
             b1 == [b EXCEPT !.dataframe = Rekey(@, u.node_map)]
             a2 == [a1 EXCEPT !.dataframe = InsertMissingRows(a1, b1)]
             g  == IF a.gid > b.gid THEN a.gid + 1 ELSE b.gid + 1
         IN  [self  |-> [a2 EXCEPT !.graph = u.graph, !.gid = g],
              other |-> b1]

\* self.unify(other): [self, other] after the call
Unify(a, b) ==
    IF a.gid = b.gid
    THEN [self |-> a, other |-> b]
    ELSE LET u  == Union(a.graph, b.graph)
             a1 == [a EXCEPT !.dataframe = Rekey(@, u.node_map)]
             b1 == [b EXCEPT !.dataframe = Rekey(@, u.node_map)]
             a2 == [a1 EXCEPT !.dataframe = InsertMissingRows(a1, b1)]
             g  == IF a.gid > b.gid THEN a.gid + 1 ELSE b.gid + 1
         IN  [self  |-> [a2 EXCEPT !.graph = u.graph, !.gid = g],
              other |-> [b1 EXCEPT !.graph = u.graph, !.gid = g]]

\* self.dataframe.add(other.dataframe[all_metrics]): the cells that are not
\* NaN, those of a key and a column both tables hold
AddTables(sdf, odf, metrics) ==
    [k \in Keys(sdf) \cap Keys(odf) |->
       [c \in sdf.columns \cap odf.columns \cap metrics |->
          sdf.rows[k][c] + odf.rows[k][c]]]

\* self.dataframe.update(result): the cells of self that result holds
UpdateTable(df, result) ==
    [df EXCEPT
       !.rows = [k \in DOMAIN @ |->
                   [c \in DOMAIN @[k] |->
                      IF k \in DOMAIN result /\ c \in DOMAIN result[k]
                      THEN result[k][c] ELSE @[k][c]]]]

\* _operator(other, self.dataframe.add)
OperatorAdd(a, b) ==
    [a EXCEPT !.dataframe =
        UpdateTable(@, AddTables(a.dataframe, b.dataframe, AllMetrics(a, b)))]

\* add(other): the new frame returned
Add(a, b) ==
    LET u == Unify(Copy(a), Copy(b))
    IN  OperatorAdd(u.self, u.other)

(***************************************************************************)
(* Input frames: what an importer hands over.  The graph is any DAG on     *)
(* Nodes (edges from lower to higher id, child lists in id order, roots    *)
(* the nodes without a parent); the table is keyed by node or by           *)
(* (node, rank) and holds a non-metric column "name" and the exclusive     *)
(* metric "time".                                                          *)
(***************************************************************************)
EdgeUniverse == {e \in Nodes \X Nodes : e[1] < e[2]}

MkGraph(E, fr) ==
    [roots    |-> SortedSeq({n \in Nodes : ~ \E e \in E : e[2] = n}),
     children |-> [n \in Nodes |-> SortedSeq({m \in Nodes : <<n, m>> \in E})],
     parents  |-> [n \in Nodes |-> SortedSeq({m \in Nodes : <<m, n>> \in E})],
     frame    |-> fr]

\* metric values: all ones (as from_lists gives), the values 2, 3, 4, 5, ...
\* along the node ids, or a distinct power of four per row (so that a sum
\* tells which rows went into it, and how often)
Schemes == {"ones", "chain", "pow"}

Value(scheme, n, r) ==
    CASE scheme = "ones"  -> 1
      [] scheme = "chain" -> n + 1 + 10 * r
      [] OTHER            -> 4 ^ ((n - 1) + MaxNodes * r)

MkTable(g, keep, multi, scheme) ==
    LET keys == IF multi THEN {<<n, r>> : n \in keep, r \in Ranks}
                ELSE {<<n>> : n \in keep}
    IN  [index_names |-> IF multi THEN <<"node", "rank">> ELSE <<"node">>,
         columns     |-> {"name", "time"},
         rows        |-> [k \in keys |->
                            [c \in {"name", "time"} |->
                               IF c = "name" THEN g.frame[k[1]]
                               ELSE Value(scheme, k[1], IF multi THEN k[2] ELSE 0)]]]

MkFrame(gid, g, df) ==
    [gid |-> gid, graph |-> g, dataframe |-> df,
     exc_metrics |-> <<"time">>, inc_metrics |-> <<>>]

DistinctFrames == [n \in Nodes |-> n]

NoFrame == MkFrame(0, NoGraph,
                   [index_names |-> <<"node">>, columns |-> {}, rows |-> <<>>])

NoRet == [err |-> "none"]

NoHeap == [frames |-> <<>>, tables |-> <<>>, graphs |-> <<>>]

(***************************************************************************)
(* The sum operations called on an imported frame.                         *)
(***************************************************************************)
SumInputs ==
    {MkFrame(1, MkGraph(E, DistinctFrames),
             MkTable(MkGraph(E, DistinctFrames), Nodes, multi, scheme)) :
        E \in SUBSET EdgeUniverse, multi \in BOOLEAN, scheme \in Schemes}

\* (columns, out_columns) a caller passes
SumArgs ==
    {<<(<<"time">>), None>>,
     <<(<<"time">>), (<<"time (inc)">>)>>,
     <<(<<"time">>), (<<"time (inc)", "extra">>)>>,
     <<(<<"time">>), (<<>>)>>}

InitSum ==
    /\ gf \in SumInputs
    /\ other = NoFrame
    /\ pre = NoFrame
    /\ preo = NoFrame
    /\ rew = NoGraph
    /\ heap = NoHeap
    /\ heap0 = NoHeap
    /\ ret = NoRet
    /\ op = "init"
    /\ calls = 0

Returned(name, outcome, a) ==
    /\ pre' = gf
    /\ gf' = outcome.frame
    /\ ret' = [err |-> outcome.err, args |-> a]
    /\ op' = name
    /\ calls' = calls + 1
    /\ UNCHANGED <<other, preo, rew, heap, heap0>>

CallSubtreeSum ==
    /\ op = "init"
    /\ \E a \in SumArgs : Returned("subtree_sum", SubtreeSum(gf, a[1], a[2]), a)

CallSubgraphSum ==
    /\ op = "init"
    /\ \E a \in SumArgs : Returned("subgraph_sum", SubgraphSum(gf, a[1], a[2]), a)

CallUpdateInclusiveColumns ==
    /\ op = "init"
    /\ Returned("update_inclusive_columns", UpdateInclusiveColumns(gf), <<>>)

NextSum == CallSubtreeSum \/ CallSubgraphSum \/ CallUpdateInclusiveColumns

SpecSum == InitSum /\ [][NextSum]_vars

(***************************************************************************)
(* squash() called on a frame whose table holds the rows a filter kept,    *)
(* and again on the frame it returned.                                     *)
(***************************************************************************)
\* every way to give the nodes frames, up to renaming the frames
FrameMaps ==
    {fr \in [Nodes -> Nodes] :
        \A n \in Nodes : fr[n] = 1 \/ \E m \in 1..(n - 1) : fr[m] + 1 >= fr[n]}

\* the frame on the graph with edges E and frames fr whose table holds the
\* rows of the nodes in keep
SquashInput(E, fr, keep, multi) ==
    MkFrame(1, MkGraph(E, fr), MkTable(MkGraph(E, fr), keep, multi, "pow"))

InitSquash ==
    /\ \E E \in SUBSET EdgeUniverse, fr \in FrameMaps,
          keep \in SUBSET Nodes, multi \in BOOLEAN :
          gf = SquashInput(E, fr, keep, multi)
    /\ other = NoFrame
    /\ pre = NoFrame
    /\ preo = NoFrame
    /\ rew = NoGraph
    /\ heap = NoHeap
    /\ heap0 = NoHeap
    /\ ret = NoRet
    /\ op = "init"
    /\ calls = 0

\* gf = gf.squash()
CallSquash ==
    /\ calls < MaxCalls
    /\ LET r == Squash(gf)
       IN  /\ pre' = gf
           /\ gf' = r.frame
           /\ rew' = r.rewired
           /\ ret' = [err |-> r.err, rekey |-> r.rekey]
    /\ op' = "squash"
    /\ calls' = calls + 1
    /\ UNCHANGED <<other, preo, heap, heap0>>

NextSquash == CallSquash

SpecSquash == InitSquash /\ [][NextSquash]_vars

(***************************************************************************)
(* filter(filter_obj, squash) on an imported frame.  The filter is given   *)
(* by the set of nodes whose rows it keeps (a query's match set, or a      *)
(* predicate on what the rows of a node share).                            *)
(***************************************************************************)
\* filtered_df: the rows of the nodes in keep
FilteredTable(df, keep) ==
    [df EXCEPT !.rows = [k \in {j \in DOMAIN @ : j[1] \in keep} |-> @[k]]]

\* filter that returns filtered_gf whatever squash is
FilterNeverSquashes(f, keep, squash) ==
    IF Keys(FilteredTable(f.dataframe, keep)) = {}
    THEN [frame |-> f, err |-> "EmptyFilter"]
    ELSE [frame |-> [f EXCEPT !.dataframe = FilteredTable(@, keep)], err |-> "none"]

\* filter: [frame, err]
Filter(f, keep, squash) ==
    LET filtered_df == FilteredTable(f.dataframe, keep)
        filtered_gf == [f EXCEPT !.dataframe = filtered_df]
    IN  IF Keys(filtered_df) = {}
        THEN [frame |-> f, err |-> "EmptyFilter"]
        ELSE IF squash
        THEN LET squashed == Squash(filtered_gf)
             IN  [frame |-> squashed.frame, err |-> squashed.err]
        ELSE [frame |-> filtered_gf, err |-> "none"]

InitFilter ==
    /\ \E E \in SUBSET EdgeUniverse, fr \in FrameMaps, multi \in BOOLEAN :
          gf = SquashInput(E, fr, Nodes, multi)
    /\ other = NoFrame
    /\ pre = NoFrame
    /\ preo = NoFrame
    /\ rew = NoGraph
    /\ heap = NoHeap
    /\ heap0 = NoHeap
    /\ ret = NoRet
    /\ op = "init"
    /\ calls = 0

\* gf = gf.filter(filter_obj, squash)
CallFilter ==
    /\ op = "init"
    /\ \E keep \in SUBSET Nodes, squash \in BOOLEAN :
          LET r == Filter(gf, keep, squash)
          IN  /\ gf' = r.frame
              /\ ret' = [err |-> r.err, keep |-> keep, squash |-> squash]
    /\ pre' = gf
    /\ op' = "filter"
    /\ calls' = calls + 1
    /\ UNCHANGED <<other, preo, rew, heap, heap0>>

NextFilter == CallFilter

SpecFilter == InitFilter /\ [][NextFilter]_vars

(***************************************************************************)
(* unify and add called on two imported frames.  An operand's graph is a   *)
(* forest in which no two siblings and no two roots carry the same frame,  *)
(* so that a node is identified by its call path; the right operand either *)
(* has a Graph of its own or shares the left operand's (a copy of it, or a *)
(* filtered copy, or the left operand itself).                             *)
(***************************************************************************)
MaxOperandNodes == 2

OperandFrames == 1..(MaxOperandNodes + 1)

\* the forest on the nodes base+1 .. base+n in which par[i] is the parent of
\* node base+i (0: none)
MkForest(base, n, par, fr) ==
    [roots    |-> SortedSeq({base + i : i \in {j \in 1..n : par[j] = 0}}),
     children |-> [m \in {base + i : i \in 1..n} |->
                     SortedSeq({base + i : i \in {j \in 1..n : par[j] = m - base}})],
     parents  |-> [m \in {base + i : i \in 1..n} |->
                     IF par[m - base] = 0 THEN <<>> ELSE <<base + par[m - base]>>],
     frame    |-> [m \in {base + i : i \in 1..n} |-> fr[m - base]]]

OperandGraphs(base) ==
    UNION {{MkForest(base, n, par, fr) :
               par \in {q \in [1..n -> 0..n] : \A i \in 1..n : q[i] < i},
               fr \in [1..n -> OperandFrames]} :
           n \in 1..MaxOperandNodes}

SiblingFramesUnique(g) == DuplicatePairs(g) = {}

LeftOperands ==
    {MkFrame(1, g, MkTable(g, GraphNodes(g), multi, "chain")) :
        g \in {h \in OperandGraphs(0) : SiblingFramesUnique(h)},
        multi \in BOOLEAN}

\* right operands with a Graph of their own
RightOperands(a) ==
    {MkFrame(2, g, MkTable(g, GraphNodes(g), IsMultiIndex(a.dataframe), "pow")) :
        g \in {h \in OperandGraphs(MaxOperandNodes) : SiblingFramesUnique(h)}}

\* right operands on the left operand's Graph
SharingOperands(a) ==
    {a} \cup
    {MkFrame(a.gid, a.graph,
             MkTable(a.graph, keep, IsMultiIndex(a.dataframe), "pow")) :
        keep \in SUBSET GraphNodes(a.graph) \ {{}}}

InitArith ==
    /\ gf \in LeftOperands
    /\ other \in RightOperands(gf) \cup SharingOperands(gf)
    /\ pre = NoFrame
    /\ preo = NoFrame
    /\ rew = NoGraph
    /\ heap = NoHeap
    /\ heap0 = NoHeap
    /\ ret = NoRet
    /\ op = "init"
    /\ calls = 0

\* gf.unify(other)
CallUnify ==
    /\ calls < MaxCalls
    /\ LET u == Unify(gf, other)
       IN  /\ gf' = u.self
           /\ other' = u.other
    /\ pre' = gf
    /\ preo' = other
    /\ ret' = NoRet
    /\ op' = "unify"
    /\ calls' = calls + 1
    /\ UNCHANGED <<rew, heap, heap0>>

\* ret = gf.add(other)
CallAdd ==
    /\ calls < MaxCalls
    /\ ret' = [err |-> "none", frame |-> Add(gf, other)]
    /\ pre' = gf
    /\ preo' = other
    /\ op' = "add"
    /\ calls' = calls + 1
    /\ UNCHANGED <<gf, other, rew, heap, heap0>>

NextArith == CallUnify \/ CallAdd

SpecArith == InitArith /\ [][NextArith]_vars

(***************************************************************************)
(* The arithmetic operators on frame objects.  copy() makes a new frame    *)
(* and a new table but shares the Graph; unify and _operator change the    *)
(* objects they are handed.  A heap holds the frame objects (each with a   *)
(* reference to its Graph and to its table), the tables and the graphs; a  *)
(* reference is a position in the heap's lists.  Frame 1 is the left       *)
(* operand A and frame 2 the right operand B, two distinct frame objects.  *)
(***************************************************************************)
ArithOps == {"add", "sub", "mul", "div"}

\* the frame object f of heap h with its graph and its table
Deref(h, f) ==
    [gid         |-> h.frames[f].graph,
     graph       |-> h.graphs[h.frames[f].graph],
     dataframe   |-> h.tables[h.frames[f].dataframe],
     exc_metrics |-> h.frames[f].exc_metrics,
     inc_metrics |-> h.frames[f].inc_metrics]

\* a copy that hands the table itself to the new frame, not a copy of it
HeapCopyShallow(h, f) ==
    [heap  |-> [h EXCEPT !.frames = Append(@, h.frames[f])],
     frame |-> Len(h.frames) + 1]

\* GraphFrame.copy(): GraphFrame(self.graph, self.dataframe.copy(), ...)
HeapCopy(h, f) ==
    [heap  |-> [h EXCEPT
                  !.tables = Append(@, h.tables[h.frames[f].dataframe]),
                  !.frames = Append(@, [h.frames[f] EXCEPT
                                          !.dataframe = Len(h.tables) + 1])],
     frame |-> Len(h.frames) + 1]

\* s.unify(o): both tables are re-keyed in place, self.dataframe is bound to
\* the table _insert_missing_rows builds, both frames to the union graph
HeapUnify(h, s, o) ==
    IF h.frames[s].graph = h.frames[o].graph
    THEN h
    ELSE LET u  == Union(Deref(h, s).graph, Deref(h, o).graph)
             h1 == [h EXCEPT
                      !.tables[h.frames[s].dataframe] = Rekey(@, u.node_map),
                      !.tables[h.frames[o].dataframe] = Rekey(@, u.node_map)]
         IN  [h1 EXCEPT
                !.tables = Append(@, InsertMissingRows(Deref(h1, s), Deref(h1, o))),
                !.graphs = Append(@, u.graph),
                !.frames[s] = [@ EXCEPT !.dataframe = Len(h1.tables) + 1,
                                        !.graph = Len(h1.graphs) + 1],
                !.frames[o] = [@ EXCEPT !.graph = Len(h1.graphs) + 1]]

\* the pandas operator applied to two cells; a quotient is kept in fixed
\* point, QuotientScale units to one (the divisors met are powers of four
\* up to QuotientScale, or the dividend itself)
QuotientScale == 4 ^ (2 * MaxOperandNodes + MaxNodes)

Arith(o, x, y) ==
    CASE o = "add" -> x + y
      [] o = "sub" -> x - y
      [] o = "mul" -> x * y
      [] OTHER     -> (x * QuotientScale) \div y

\* op(other.dataframe[all_metrics]) for self.dataframe.add / sub / multiply /
\* divide: the cells that are not NaN
OpTables(o, sdf, odf, metrics) ==
    IF o = "add" THEN AddTables(sdf, odf, metrics)
    ELSE [k \in Keys(sdf) \cap Keys(odf) |->
            [c \in sdf.columns \cap odf.columns \cap metrics |->
               Arith(o, sdf.rows[k][c], odf.rows[k][c])]]

\* s._operator(o, s.dataframe.<op>): self's table is updated in place
HeapOperator(h, s, o, opname) ==
    [h EXCEPT !.tables[h.frames[s].dataframe] =
        UpdateTable(@, OpTables(opname, Deref(h, s).dataframe, Deref(h, o).dataframe,
                                AllMetrics(Deref(h, s), Deref(h, o))))]

\* a.add(b), a.sub(b), a.mul(b), a.div(b): [heap, frame returned]
HeapBinary(h, a, b, opname) ==
    LET self_copy  == HeapCopy(h, a)
        other_copy == HeapCopy(self_copy.heap, b)
        unified    == HeapUnify(other_copy.heap, self_copy.frame, other_copy.frame)
    IN  [heap  |-> HeapOperator(unified, self_copy.frame, other_copy.frame, opname),
         frame |-> self_copy.frame]

\* a += b, a -= b, a *= b, a /= b: [heap, frame returned]
HeapInPlace(h, a, b, opname) ==
    LET other_copy == HeapCopy(h, b)
        unified    == HeapUnify(other_copy.heap, a, other_copy.frame)
    IN  [heap  |-> HeapOperator(unified, a, other_copy.frame, opname),
         frame |-> a]

\* the heap that holds the operands a and b
MkHeap(a, b) ==
    [frames |-> <<[graph |-> a.gid, dataframe |-> 1,
                   exc_metrics |-> a.exc_metrics, inc_metrics |-> a.inc_metrics],
                  [graph |-> b.gid, dataframe |-> 2,
                   exc_metrics |-> b.exc_metrics, inc_metrics |-> b.inc_metrics]>>,
     tables |-> <<a.dataframe, b.dataframe>>,
     graphs |-> IF a.gid = b.gid THEN <<a.graph>> ELSE <<a.graph, b.graph>>]

InitOps ==
    /\ \E a \in LeftOperands :
          \E b \in RightOperands(a) \cup SharingOperands(a) :
             heap = MkHeap(a, b)
    /\ heap0 = NoHeap
    /\ gf = NoFrame
    /\ other = NoFrame
    /\ pre = NoFrame
    /\ preo = NoFrame
    /\ rew = NoGraph
    /\ ret = NoRet
    /\ op = "init"
    /\ calls = 0

OpsReturned(r, opname, form) ==
    /\ heap0' = heap
    /\ heap' = r.heap
    /\ ret' = [err |-> "none", frame |-> r.frame, form |-> form]
    /\ op' = opname
    /\ calls' = calls + 1
    /\ UNCHANGED <<gf, other, pre, preo, rew>>

\* C = A.add(B) and the like
CallBinary ==
    /\ op = "init"
    /\ \E o \in ArithOps : OpsReturned(HeapBinary(heap, 1, 2, o), o, "new")

\* A += B and the like
CallInPlace ==
    /\ op = "init"
    /\ \E o \in ArithOps : OpsReturned(HeapInPlace(heap, 1, 2, o), o, "in place")

NextOps == CallBinary \/ CallInPlace

SpecOps == InitOps /\ [][NextOps]_vars

(***************************************************************************)
(* groupby_aggregate(groupby_function, agg_function) with a column name as *)
(* grouping and one aggregation for the exclusive metric.  The super node  *)
(* of the i-th group (nid i - 1) is node i of the new graph.               *)
(***************************************************************************)
MaxGroupNodes == 5
MaxGroupKeys == 2

GroupNodes == 1..MaxGroupNodes
GroupKeys == 1..MaxGroupKeys
AggFunctions == {"sum", "max"}

\* the values of column c in the rows ks, as pandas hands them to a function
ColumnValues(df, ks, c) == [k \in ks |-> df.rows[k][c]]

MaxOf(vals) == CHOOSE m \in Range(vals) : \A v \in Range(vals) : v <= m

SumOf(vals) == SetSum(vals, DOMAIN vals)

\* np.mean; the groups it is applied to hold one row
MeanOf(vals) == SumOf(vals) \div Cardinality(DOMAIN vals)

Aggregate(agg, vals) == IF agg = "sum" THEN SumOf(vals) ELSE MaxOf(vals)

\* groupby_obj.groups: the group keys in sorted order, and for a key the
\* index labels of its rows
GroupKeyList(df, by) == SortedSeq({df.rows[k][by] : k \in Keys(df)})

GroupLabels(df, by, key) == {k \in Keys(df) : df.rows[k][by] = key}

\* old_to_new[i] = super_node for the index labels i of the group
GroupOldToNew(df, by) ==
    [k \in Keys(df) |->
        CHOOSE i \in DOMAIN GroupKeyList(df, by) : GroupKeyList(df, by)[i] = df.rows[k][by]]

\* old_to_new.get(node): the labels of a table keyed by node alone are the
\* nodes; those of a MultiIndex are tuples, which no node equals
OldToNewGet(df, o2n, node) ==
    IF ~ IsMultiIndex(df) /\ <<node>> \in DOMAIN o2n THEN o2n[<<node>>] ELSE 0

\* reindex without the test "if snode == super_node: continue"
LinkKeepSelfEdges(st, field, super_node, snode) ==
    IF super_node = 0 THEN [st EXCEPT !.err = "AttributeError"]
    ELSE IF snode \in Range(st[field][super_node]) THEN st
    ELSE [st EXCEPT ![field][super_node] = Append(@, snode)]

\* reindex without its loop over node.children: only parents are added
LinkParentsOnly(st, field, super_node, snode) ==
    IF snode = super_node \/ field = "children" THEN st
    ELSE IF super_node = 0 THEN [st EXCEPT !.err = "AttributeError"]
    ELSE IF snode \in Range(st[field][super_node]) THEN st
    ELSE [st EXCEPT ![field][super_node] = Append(@, snode)]

\* one turn of reindex's loop over node.parents (field "parents") or over
\* node.children (field "children")
Link(st, field, super_node, snode) ==
    IF snode = super_node THEN st
    ELSE IF super_node = 0 THEN [st EXCEPT !.err = "AttributeError"]
    ELSE IF snode \in Range(st[field][super_node]) THEN st
    ELSE [st EXCEPT ![field][super_node] = Append(@, snode)]

RECURSIVE LinkAll(_, _, _, _, _, _)
LinkAll(df, o2n, st, field, super_node, list) ==
    IF list = <<>> \/ st.err # "none" THEN st
    ELSE LinkAll(df, o2n,
                 Link(st, field, super_node, OldToNewGet(df, o2n, Head(list))),
                 field, super_node, Tail(list))

\* reindex(node, parent, visited)
RECURSIVE Reindex(_, _, _, _, _), ReindexChildren(_, _, _, _, _)
Reindex(g, df, o2n, node, st) ==
    LET super_node == OldToNewGet(df, o2n, node)
        st1 == IF g.parents[node] = <<>> /\ super_node \notin Range(st.roots)
               THEN [st EXCEPT !.roots = Append(@, super_node)] ELSE st
        st2 == LinkAll(df, o2n, st1, "parents", super_node, g.parents[node])
        st3 == LinkAll(df, o2n, st2, "children", super_node, g.children[node])
    IN  IF node \notin st3.visited
        THEN ReindexChildren(g, df, o2n, g.children[node],
                             [st3 EXCEPT !.visited = @ \cup {node}])
        ELSE st3
ReindexChildren(g, df, o2n, list, st) ==
    IF list = <<>> \/ st.err # "none" THEN st
    ELSE ReindexChildren(g, df, o2n, Tail(list), Reindex(g, df, o2n, Head(list), st))

\* for root in self.graph.roots: reindex(root, None, visited)
ReindexedGraph(f, by) ==
    LET df  == f.dataframe
        n   == Len(GroupKeyList(df, by))
    IN  ReindexChildren(f.graph, df, GroupOldToNew(df, by), f.graph.roots,
                        [roots    |-> <<>>,
                         children |-> [i \in 1..n |-> <<>>],
                         parents  |-> [i \in 1..n |-> <<>>],
                         visited  |-> {},
                         err      |-> "none"])

\* agg_df joined with the super nodes and indexed by (group key, node), then
\* drop_index_levels(): one row per node, np.mean of the metrics
GroupedTable(f, by, agg) ==
    LET df   == f.dataframe
        keys == GroupKeyList(df, by)
        metrics == Range(f.exc_metrics) \cup Range(f.inc_metrics)
        agg_row(i) == Aggregate(agg, ColumnValues(df, GroupLabels(df, by, keys[i]), "time"))
    IN  [index_names |-> <<"node">>,
         columns     |-> {"time", "nid", "name"},
         rows        |-> [k \in {<<i>> : i \in DOMAIN keys} |->
                            [c \in {"time", "nid", "name"} |->
                               CASE c = "time" ->
                                      IF "time" \in metrics
                                      THEN MeanOf(<<agg_row(k[1])>>)
                                      ELSE agg_row(k[1])
                                 [] c = "nid"  -> k[1] - 1
                                 [] OTHER      -> keys[k[1]]]]]

\* groupby_aggregate: [frame, err].  dataframe.groupby raises KeyError for a
\* column the table does not have; Graph(new_roots).enumerate_traverse()
\* walks the roots, which fails on a root that is None.
GroupbyAggregate(f, by, agg) ==
    LET st    == ReindexedGraph(f, by)
        keys  == GroupKeyList(f.dataframe, by)
        graph == [roots    |-> st.roots,
                  children |-> st.children,
                  parents  |-> st.parents,
                  frame    |-> [i \in DOMAIN keys |-> keys[i]]]
    IN  IF by \notin f.dataframe.columns THEN [frame |-> f, err |-> "KeyError"]
        ELSE IF st.err # "none" THEN [frame |-> f, err |-> st.err]
        ELSE IF 0 \in Range(st.roots) THEN [frame |-> f, err |-> "AttributeError"]
        ELSE [frame |-> [gid         |-> f.gid + 1,
                         graph       |-> graph,
                         dataframe   |-> GroupedTable(f, by, agg),
                         exc_metrics |-> f.exc_metrics,
                         inc_metrics |-> f.inc_metrics],
              err   |-> "none"]

\* the frames groupby_aggregate is called on: any DAG on GroupNodes, a table
\* with a row (or a row per rank) for every node, and a column "module"
GroupEdgeUniverse == {e \in GroupNodes \X GroupNodes : e[1] < e[2]}

GroupInput(E, module, multi) ==
    LET g == [roots    |-> SortedSeq({n \in GroupNodes : ~ \E e \in E : e[2] = n}),
              children |-> [n \in GroupNodes |-> SortedSeq({m \in GroupNodes : <<n, m>> \in E})],
              parents  |-> [n \in GroupNodes |-> SortedSeq({m \in GroupNodes : <<m, n>> \in E})],
              frame    |-> [n \in GroupNodes |-> n]]
        keys == IF multi THEN {<<n, r>> : n \in GroupNodes, r \in Ranks}
                ELSE {<<n>> : n \in GroupNodes}
    IN  MkFrame(1, g,
                [index_names |-> IF multi THEN <<"node", "rank">> ELSE <<"node">>,
                 columns     |-> {"name", "module", "time"},
                 rows        |-> [k \in keys |->
                                    [c \in {"name", "module", "time"} |->
                                       CASE c = "name"   -> k[1]
                                         [] c = "module" -> module[k[1]]
                                         [] OTHER -> 4 ^ (k[1] - 1)
                                                     + (IF multi THEN k[2] ELSE 0)]]])

InitGroupby ==
    /\ \E E \in SUBSET GroupEdgeUniverse, module \in [GroupNodes -> GroupKeys],
          multi \in BOOLEAN :
          gf = GroupInput(E, module, multi)
    /\ other = NoFrame
    /\ pre = NoFrame
    /\ preo = NoFrame
    /\ rew = NoGraph
    /\ heap = NoHeap
    /\ heap0 = NoHeap
    /\ ret = NoRet
    /\ op = "init"
    /\ calls = 0

\* gf = gf.groupby_aggregate(["module"], {"time": agg})
CallGroupbyAggregate ==
    /\ op = "init"
    /\ \E agg \in AggFunctions :
          LET r == GroupbyAggregate(gf, "module", agg)
          IN  /\ gf' = r.frame
              /\ ret' = [err |-> r.err, agg |-> agg]
    /\ pre' = gf
    /\ op' = "groupby_aggregate"
    /\ calls' = calls + 1
    /\ UNCHANGED <<other, preo, rew, heap, heap0>>

NextGroupby == CallGroupbyAggregate

SpecGroupby == InitGroupby /\ [][NextGroupby]_vars

(***************************************************************************)
(* The two operations that build a new graph, squash() and                 *)
(* groupby_aggregate(), called on an imported frame, and squash() called   *)
(* on the frame groupby_aggregate returned.                                *)
(***************************************************************************)
InitRewrite == InitSquash \/ InitGroupby

\* gf = gf.squash() on a frame whose table holds the rows a filter kept (the
\* frames without a column to group by) or on the frame a groupby_aggregate
\* that did not raise returned
CallSquashOnce ==
    /\ \/ op = "init" /\ "module" \notin gf.dataframe.columns
       \/ op = "groupby_aggregate" /\ ret.err = "none"
    /\ CallSquash

NextRewrite == CallSquashOnce \/ CallGroupbyAggregate

SpecRewrite == InitRewrite /\ [][NextRewrite]_vars

(***************************************************************************)
(* Properties of the sum operations.                                       *)
(***************************************************************************)
ChildSet(g, n) == Range(g.children[n])

RECURSIVE Closure(_, _)
Closure(g, S) ==
    LET T == S \cup UNION {ChildSet(g, n) : n \in S}
    IN  IF T = S THEN S ELSE Closure(g, T)

\* n and its distinct descendants
DescOrSelf(g, n) == Closure(g, {n})

\* the sum of column m over the rows of n and its distinct descendants that
\* carry the same secondary key as k, each row once
InclusiveAt(f, k, m) ==
    LET sel == {j \in Keys(f.dataframe) :
                  j[1] \in DescOrSelf(f.graph, k[1]) /\ Tail(j) = Tail(k)}
    IN  SetSum([j \in sel |-> f.dataframe.rows[j][m]], sel)

Cell(f, k, c) == f.dataframe.rows[k][c]

SumDone(name) == op = name /\ ret.err = "none"

\* the column a sum call wrote for input column "time"
OutColumn == IF ret.args[2] = None THEN "time" ELSE ret.args[2][1]

NodeKeyed(f) == ~ IsMultiIndex(f.dataframe)

\* C3: after update_inclusive_columns(), "time (inc)" at every row is the sum
\* of "time" over the row's node and its distinct descendants, each
\* descendant counted exactly once.
C3_InclusiveIsDescendantSum ==
    SumDone("update_inclusive_columns") =>
        \A k \in Keys(gf.dataframe) :
            Cell(gf, k, "time (inc)") = InclusiveAt(gf, k, "time")

\* C3 restricted to tables keyed by node alone
C3_NodeKeyedInclusive ==
    (SumDone("update_inclusive_columns") /\ NodeKeyed(gf)) =>
        \A k \in Keys(gf.dataframe) :
            Cell(gf, k, "time (inc)") = InclusiveAt(gf, k, "time")

C3_NodeKeyedWitness ==
    /\ SumDone("update_inclusive_columns") /\ NodeKeyed(gf)
    /\ ~ IsTree(gf.graph)
    /\ \E k \in Keys(gf.dataframe) : Cell(gf, k, "time (inc)") > Cell(gf, k, "time")

Position(seq, x) == CHOOSE i \in DOMAIN seq : seq[i] = x

IsChain1234(g) ==
    /\ MaxNodes >= 4
    /\ \A n \in 1..3 : g.children[n] = <<n + 1>>
    /\ g.children[4] = <<>>
    /\ g.roots[1] = 1

\* C4: subtree_sum on a tree keyed by node alone visits children before
\* parents, writes at each node its own value plus its children's outputs,
\* hence the sum over the node and all its descendants; the chain with values
\* 2, 3, 4, 5 yields 14, 12, 9, 5.
C4_SubtreeSumOnTree ==
    (SumDone("subtree_sum") /\ NodeKeyed(pre) /\ IsTree(pre.graph)) =>
        /\ \A n \in Nodes : \A c \in ChildSet(pre.graph, n) :
              Position(GraphTraversePost(pre.graph), c)
                  < Position(GraphTraversePost(pre.graph), n)
        /\ \A n \in Nodes :
              /\ Cell(gf, <<n>>, OutColumn)
                    = Cell(pre, <<n>>, "time")
                      + SetSum([c \in ChildSet(pre.graph, n) |-> Cell(gf, <<c>>, OutColumn)],
                               ChildSet(pre.graph, n))
              /\ Cell(gf, <<n>>, OutColumn) = InclusiveAt(pre, <<n>>, "time")
        /\ (IsChain1234(pre.graph)
              /\ \A n \in 1..4 : Cell(pre, <<n>>, "time") = n + 1)
           => /\ Cell(gf, <<1>>, OutColumn) = 14
              /\ Cell(gf, <<2>>, OutColumn) = 12
              /\ Cell(gf, <<3>>, OutColumn) = 9
              /\ Cell(gf, <<4>>, OutColumn) = 5

C4_Witness ==
    /\ SumDone("subtree_sum") /\ NodeKeyed(pre) /\ IsTree(pre.graph)
    /\ IsChain1234(pre.graph)
    /\ \A n \in 1..4 : Cell(pre, <<n>>, "time") = n + 1
    /\ Cell(gf, <<1>>, OutColumn) = 14

\* C5: subgraph_sum runs subtree_sum exactly when is_tree() holds and the
\* per-node re-traversal otherwise, and on every tree both algorithms write
\* the same table.
C5_DispatchAndAgreement ==
    SumDone("subgraph_sum") =>
        /\ IsTree(pre.graph)
              => gf = SubtreeSum(pre, ret.args[1], ret.args[2]).frame
        /\ ~ IsTree(pre.graph)
              => gf = GeneralSum(pre, ret.args[1], ret.args[2]).frame
        /\ IsTree(pre.graph)
              => GeneralSum(pre, ret.args[1], ret.args[2]).frame
                    = SubtreeSum(pre, ret.args[1], ret.args[2]).frame

\* C5 restricted to tables keyed by node alone
C5_NodeKeyedAgreement ==
    (SumDone("subgraph_sum") /\ NodeKeyed(pre)) =>
        /\ IsTree(pre.graph)
              => gf = SubtreeSum(pre, ret.args[1], ret.args[2]).frame
        /\ ~ IsTree(pre.graph)
              => gf = GeneralSum(pre, ret.args[1], ret.args[2]).frame
        /\ IsTree(pre.graph)
              => GeneralSum(pre, ret.args[1], ret.args[2]).frame
                    = SubtreeSum(pre, ret.args[1], ret.args[2]).frame

\* C6: with a (node, rank) key, subtree_sum (on a tree) and subgraph_sum
\* write at (n, k) the sum of the rows of n and its descendants whose rank is
\* k, and of no other row.
C6_SumsPerSecondaryKey ==
    (/\ \/ SumDone("subtree_sum") /\ IsTree(pre.graph)
        \/ SumDone("subgraph_sum")
     /\ IsMultiIndex(pre.dataframe)
     /\ ret.args[2] # None) =>
        \A k \in Keys(gf.dataframe) :
            Cell(gf, k, OutColumn) = InclusiveAt(pre, k, "time")

\* C6 for the per-node re-traversal alone (subgraph_sum on a graph that is
\* not a tree)
C6_GeneralPerSecondaryKey ==
    (/\ SumDone("subgraph_sum") /\ ~ IsTree(pre.graph)
     /\ IsMultiIndex(pre.dataframe)
     /\ ret.args[2] # None) =>
        \A k \in Keys(gf.dataframe) :
            Cell(gf, k, OutColumn) = InclusiveAt(pre, k, "time")

(***************************************************************************)
(* Properties of squash().                                                 *)
(***************************************************************************)
Squashed == op = "squash" /\ ret.err = "none"

Retained(f) == KeyNodes(f.dataframe)

\* C1: the frame squash() returns for a non-empty retained set has exactly
\* the nodes reachable from its graph's roots as the nodes of its table keys.
C1_SquashGraphMatchesTable ==
    (Squashed /\ Retained(pre) # {}) =>
        Reachable(gf.graph) = KeyNodes(gf.dataframe)

\* a squash that elided a node and merged two retained nodes
C1_Witness ==
    /\ Squashed
    /\ Retained(pre) # GraphNodes(pre.graph)
    /\ Cardinality(KeyNodes(gf.dataframe)) >= 2
    /\ Cardinality(KeyNodes(gf.dataframe)) < Cardinality(Retained(pre))
    /\ Reachable(gf.graph) = KeyNodes(gf.dataframe)

\* the retained nodes reached from u by a path of length >= 1 whose interior
\* nodes are all removed
RECURSIVE Frontier(_, _, _)
Frontier(g, R, S) ==
    LET T == S \cup UNION {ChildSet(g, n) : n \in S \ R}
    IN  IF T = S THEN S \cap R ELSE Frontier(g, R, T)

ElidedChildren(g, R, u) == Frontier(g, R, ChildSet(g, u))

ProperDesc(g, n) == Closure(g, ChildSet(g, n))

\* C2: after rewiring, new(u) -> new(v) is an edge exactly when the old graph
\* has a path u -> v of length >= 1 through removed nodes only; so u is an
\* ancestor of v in the old graph iff new(u) is one of new(v) in the new.
C2_RewireKeepsAncestry ==
    Squashed =>
        LET g   == pre.graph
            R   == Retained(pre)
            o2n == OldToNew(pre)
        IN  \A u \in R, v \in R :
              /\ (o2n[v] \in ChildSet(rew, o2n[u])) <=> (v \in ElidedChildren(g, R, u))
              /\ (o2n[v] \in ProperDesc(rew, o2n[u])) <=> (v \in ProperDesc(g, u))

\* a removed node with two parents is reached twice, under two different
\* retained ancestors, and its retained child is linked under both
C2_Witness ==
    /\ Squashed
    /\ LET g   == pre.graph
           R   == Retained(pre)
           o2n == OldToNew(pre)
       IN  \E x \in GraphNodes(g) \ R :
             \E u \in R, w \in R, v \in R :
               /\ u # w
               /\ x \in ChildSet(g, u) /\ x \in ChildSet(g, w)
               /\ w \notin ProperDesc(g, u) /\ u \notin ProperDesc(g, w)
               /\ v \in ChildSet(g, x)
               /\ o2n[v] \in ChildSet(rew, o2n[u])
               /\ o2n[v] \in ChildSet(rew, o2n[w])

IsInjective(m) == \A a \in DOMAIN m, b \in DOMAIN m : m[a] = m[b] => a = b

\* m maps graph g1 onto graph g2: same roots, edges and frames
GraphEquivalentVia(g1, g2, m) ==
    /\ DOMAIN m = GraphNodes(g1)
    /\ IsInjective(m)
    /\ Range(m) = GraphNodes(g2)
    /\ {m[r] : r \in Range(g1.roots)} = Range(g2.roots)
    /\ Len(g1.roots) = Len(g2.roots)
    /\ \A n \in GraphNodes(g1) :
          /\ {m[c] : c \in ChildSet(g1, n)} = ChildSet(g2, m[n])
          /\ {m[q] : q \in Range(g1.parents[n])} = Range(g2.parents[m[n]])
          /\ Len(g1.children[n]) = Len(g2.children[m[n]])
          /\ Len(g1.parents[n]) = Len(g2.parents[m[n]])
          /\ g1.frame[n] = g2.frame[m[n]]

\* m maps the rows of f1 onto the rows of f2 with equal values in cols
TableEquivalentVia(f1, f2, m, cols) ==
    /\ Keys(f2.dataframe) = {<<m[k[1]]>> \o Tail(k) : k \in Keys(f1.dataframe)}
    /\ \A k \in Keys(f1.dataframe) : \A c \in cols :
          Cell(f2, <<m[k[1]]>> \o Tail(k), c) = Cell(f1, k, c)

AllRetained(f) == Retained(f) = GraphNodes(f.graph)

\* squash(squash(gf)) is equivalent to squash(gf): graph, exclusive and
\* inclusive values
SquashTwiceEquivalent ==
    (Squashed /\ calls >= 2 /\ Retained(pre) # {}) =>
        /\ GraphEquivalentVia(pre.graph, gf.graph, ret.rekey)
        /\ TableEquivalentVia(pre, gf, ret.rekey, {"name", "time", "time (inc)"})

\* C7 as stated: squash is idempotent, and squashing a frame whose table keys
\* are all the graph's nodes returns an equivalent graph.
C7_SquashIdempotent ==
    /\ SquashTwiceEquivalent
    /\ (Squashed /\ AllRetained(pre) /\ Retained(pre) # {}) =>
          GraphEquivalentVia(pre.graph, gf.graph, ret.rekey)

\* C7 as amended: the second part for graphs in which no two siblings and no
\* two roots carry the same frame.
C7_SquashIdempotentOnNormalized ==
    /\ SquashTwiceEquivalent
    /\ (Squashed /\ AllRetained(pre) /\ Retained(pre) # {}
          /\ DuplicatePairs(pre.graph) = {}) =>
          /\ GraphEquivalentVia(pre.graph, gf.graph, ret.rekey)
          /\ TableEquivalentVia(pre, gf, ret.rekey, {"name", "time"})

\* a second squash of a frame whose first squash elided a node of a DAG
C7_Witness ==
    /\ Squashed /\ calls >= 2
    /\ Cardinality(Retained(pre)) >= 3
    /\ ~ IsTree(pre.graph)
    /\ GraphEquivalentVia(pre.graph, gf.graph, ret.rekey)

(***************************************************************************)
(* Properties of unify and add.  The operands' graphs are forests with     *)
(* distinct frames among siblings, so a node is named by its call path,    *)
(* the frames from its root down to it, in every graph it occurs in.       *)
(***************************************************************************)
RECURSIVE CallPath(_, _)
CallPath(g, n) ==
    IF g.parents[n] = <<>> THEN <<g.frame[n]>>
    ELSE Append(CallPath(g, g.parents[n][1]), g.frame[n])

\* a row key with its node replaced by the node's call path
PathKey(f, k) == <<CallPath(f.graph, k[1])>> \o Tail(k)

PathKeys(f) == {PathKey(f, k) : k \in Keys(f.dataframe)}

GraphPaths(g) == {CallPath(g, n) : n \in GraphNodes(g)}

\* the value of column c in the row of f with path key pk, 0 without a row
ValueAt(f, pk, c) ==
    IF pk \in PathKeys(f)
    THEN Cell(f, CHOOSE k \in Keys(f.dataframe) : PathKey(f, k) = pk, c)
    ELSE 0

KeysByPath(f) == Cardinality(PathKeys(f)) = Cardinality(Keys(f.dataframe))

Marker(f, k) ==
    IF "_missing_node" \in DOMAIN f.dataframe.rows[k]
    THEN f.dataframe.rows[k]["_missing_node"] ELSE "<absent>"

AddedDistinct == op = "add" /\ pre.gid # preo.gid
UnifiedDistinct == op = "unify" /\ pre.gid # preo.gid

\* C8: A.add(B) on frames with different graphs returns a frame whose table
\* holds the union of the operands' nodes (and of their rows); a metric is
\* A's value at a node of A only, the sum at a node of both and B's value at
\* a node of B only.
C8_MissingNodeAdd ==
    AddedDistinct =>
        /\ GraphPaths(ret.frame.graph) = GraphPaths(pre.graph) \cup GraphPaths(preo.graph)
        /\ PathKeys(ret.frame) = PathKeys(pre) \cup PathKeys(preo)
        /\ KeysByPath(ret.frame)
        /\ \A k \in Keys(ret.frame.dataframe) :
              Cell(ret.frame, k, "time")
                 = ValueAt(pre, PathKey(ret.frame, k), "time")
                   + ValueAt(preo, PathKey(ret.frame, k), "time")
        /\ gf = pre /\ other = preo

C8_Witness ==
    /\ AddedDistinct
    /\ \E x, y, z \in Keys(ret.frame.dataframe) :
          /\ PathKey(ret.frame, x) \in PathKeys(pre) \ PathKeys(preo)
          /\ PathKey(ret.frame, y) \in PathKeys(pre) \cap PathKeys(preo)
          /\ PathKey(ret.frame, z) \in PathKeys(preo) \ PathKeys(pre)
          /\ Cell(ret.frame, x, "time") > 0
          /\ Cell(ret.frame, y, "time") > Cell(pre, CHOOSE k \in Keys(pre.dataframe) :
                                                 PathKey(pre, k) = PathKey(ret.frame, y), "time")
          /\ Cell(ret.frame, z, "time") > 0

\* C9 as stated: after unify on frames with different graphs both frames
\* hold the same Graph, every row of only one table has been inserted into
\* the other with zero metrics and an "L" or "R" marker, and both tables end
\* with the union of the keys.
C9_UnifyInsertsIntoBoth ==
    UnifiedDistinct =>
        /\ gf.gid = other.gid /\ gf.graph = other.graph
        /\ PathKeys(gf) = PathKeys(pre) \cup PathKeys(preo)
        /\ PathKeys(other) = PathKeys(pre) \cup PathKeys(preo)
        /\ \A k \in Keys(gf.dataframe) :
              PathKey(gf, k) \notin PathKeys(pre)
                 => Cell(gf, k, "time") = 0 /\ Marker(gf, k) = "R"
        /\ \A k \in Keys(other.dataframe) :
              PathKey(other, k) \notin PathKeys(preo)
                 => Cell(other, k, "time") = 0 /\ Marker(other, k) = "L"

\* C9, amended: after unify on frames with different graphs both frames
\* hold the same Graph and both tables are keyed by its nodes; the rows of
\* the right table only are inserted into the left table with zero metrics
\* and the marker "R", the rows of the left table only stay with their
\* values and get the marker "L" in the left table, and the right table
\* receives neither rows nor markers: the left table ends with the union of
\* the keys, the right table with its own.
C9_UnifyInsertsIntoSelf ==
    UnifiedDistinct =>
        /\ gf.gid = other.gid /\ gf.graph = other.graph
        /\ gf.gid \notin {pre.gid, preo.gid}
        /\ GraphPaths(gf.graph) = GraphPaths(pre.graph) \cup GraphPaths(preo.graph)
        /\ PathKeys(gf) = PathKeys(pre) \cup PathKeys(preo)
        /\ PathKeys(other) = PathKeys(preo)
        /\ KeysByPath(gf) /\ KeysByPath(other)
        /\ \A k \in Keys(gf.dataframe) :
              LET pk == PathKey(gf, k)
              IN  /\ pk \notin PathKeys(pre)
                       => Cell(gf, k, "time") = 0 /\ Marker(gf, k) = "R"
                  /\ pk \in PathKeys(pre) \ PathKeys(preo)
                       => /\ Cell(gf, k, "time") = ValueAt(pre, pk, "time")
                          /\ Marker(gf, k) = "L"
                  /\ pk \in PathKeys(pre) \cap PathKeys(preo)
                       => /\ Cell(gf, k, "time") = ValueAt(pre, pk, "time")
                          /\ Marker(gf, k) \in {"", "<absent>"}
        /\ \A k \in Keys(other.dataframe) :
              /\ Cell(other, k, "time") = ValueAt(preo, PathKey(other, k), "time")
              /\ Marker(other, k) = "<absent>"

C9_Witness ==
    /\ UnifiedDistinct
    /\ \E x, y, z \in Keys(gf.dataframe) :
          /\ Marker(gf, x) = "L" /\ Cell(gf, x, "time") > 0
          /\ Marker(gf, y) = ""
          /\ Marker(gf, z) = "R" /\ Cell(gf, z, "time") = 0
          /\ x \notin Keys(other.dataframe)
          /\ z \in Keys(other.dataframe) /\ Cell(other, z, "time") > 0

\* C10: unify on operands that share their Graph changes neither frame (no
\* marker column, no zero-filled row), and add(A, A) returns a frame on A's
\* graph with exactly A's rows, every metric doubled and the other columns
\* as in A.
C10_ArithmeticIdentity ==
    /\ (op = "unify" /\ pre.gid = preo.gid)
          => /\ gf = pre /\ other = preo
             /\ Keys(gf.dataframe) = Keys(pre.dataframe)
             /\ gf.dataframe.columns = pre.dataframe.columns
             /\ other.dataframe.columns = preo.dataframe.columns
    /\ (op = "add" /\ preo = pre)
          => /\ ret.frame.gid = pre.gid /\ ret.frame.graph = pre.graph
             /\ Keys(ret.frame.dataframe) = Keys(pre.dataframe)
             /\ ret.frame.dataframe.columns = pre.dataframe.columns
             /\ \A k \in Keys(pre.dataframe) :
                   /\ Cell(ret.frame, k, "time") = 2 * Cell(pre, k, "time")
                   /\ Cell(ret.frame, k, "name") = Cell(pre, k, "name")
                   /\ DOMAIN ret.frame.dataframe.rows[k] = DOMAIN pre.dataframe.rows[k]
             /\ gf = pre /\ other = preo

\* unify(A, A) or add(A, A) came before add(A, A) on a frame of several rows
C10_Witness ==
    /\ op = "add" /\ preo = pre /\ calls = MaxCalls
    /\ Cardinality(Keys(ret.frame.dataframe)) > 1
    /\ \A k \in Keys(pre.dataframe) : Cell(ret.frame, k, "time") > Cell(pre, k, "time")

(***************************************************************************)
(* Properties of the arithmetic operators on frame objects.                *)
(***************************************************************************)
\* frame object f refers to the same Graph and the same table as before the
\* last call, and neither has changed
OperandUnchanged(f) ==
    /\ heap.frames[f] = heap0.frames[f]
    /\ heap.graphs[heap.frames[f].graph] = heap0.graphs[heap0.frames[f].graph]
    /\ heap.tables[heap.frames[f].dataframe] = heap0.tables[heap0.frames[f].dataframe]

\* C11: add, sub, mul and div return a new frame and leave both operands
\* with their Graph and with the rows and values of their tables; the
\* in-place forms leave the right operand so.
C11_OperandsUnchanged ==
    /\ (op \in ArithOps /\ ret.form = "new")
          => /\ OperandUnchanged(1) /\ OperandUnchanged(2)
             /\ ret.frame \notin {1, 2}
             /\ heap.frames[ret.frame].dataframe
                   \notin {heap.frames[1].dataframe, heap.frames[2].dataframe}
    /\ (op \in ArithOps /\ ret.form = "in place")
          => OperandUnchanged(2) /\ ret.frame = 1

\* A.div(B) on operands with different graphs returned a frame on a new
\* graph whose table differs from A's
C11_Witness ==
    /\ op = "div" /\ ret.form = "new"
    /\ heap0.frames[1].graph # heap0.frames[2].graph
    /\ heap.frames[ret.frame].graph \notin {heap.frames[1].graph, heap.frames[2].graph}
    /\ Keys(Deref(heap, ret.frame).dataframe) # Keys(Deref(heap, 1).dataframe)
    /\ OperandUnchanged(1) /\ OperandUnchanged(2)

(***************************************************************************)
(* Properties of groupby_aggregate.                                        *)
(***************************************************************************)
Grouped == op = "groupby_aggregate"

\* the group keys of the frame the call was made on, and a key's rows
KeysGrouped == {Cell(pre, k, "module") : k \in Keys(pre.dataframe)}

RowsOfGroup(key) == {k \in Keys(pre.dataframe) : Cell(pre, k, "module") = key}

\* the old nodes that have a row in the group of super node s
Members(s) == {k[1] : k \in RowsOfGroup(gf.graph.frame[s])}

OneSuperNodePerKey ==
    /\ ret.err = "none"
    /\ Cardinality(GraphNodes(gf.graph)) = Cardinality(KeysGrouped)
    /\ {gf.graph.frame[s] : s \in GraphNodes(gf.graph)} = KeysGrouped
    /\ Reachable(gf.graph) = GraphNodes(gf.graph)
    /\ Keys(gf.dataframe) = {<<s>> : s \in GraphNodes(gf.graph)}
    /\ \A s \in GraphNodes(gf.graph) :
          Cell(gf, <<s>>, "time")
             = Aggregate(ret.agg,
                         ColumnValues(pre.dataframe, RowsOfGroup(gf.graph.frame[s]), "time"))

\* C12: groupby_aggregate returns a frame with exactly one super node per
\* distinct group key and one table row per super node, whose exclusive
\* metric is the caller's aggregation of the values of the group's rows.
C12_GroupbyAggregate == Grouped => OneSuperNodePerKey

\* C12 for tables keyed by node alone
C12_NodeKeyedGroupby == (Grouped /\ NodeKeyed(pre)) => OneSuperNodePerKey

C12_NodeKeyedWitness ==
    /\ Grouped /\ NodeKeyed(pre) /\ ret.err = "none"
    /\ Cardinality(GraphNodes(pre.graph)) = 5
    /\ Cardinality(GraphNodes(gf.graph)) = 2
    /\ ret.agg = "sum"
    /\ \E s \in GraphNodes(gf.graph) : Cardinality(Members(s)) = 3

(***************************************************************************)
(* Properties of filter.                                                   *)
(***************************************************************************)
Filtered == op = "filter" /\ ret.err = "none"

\* C13 as stated: whatever squash is, the frame filter returns has as table
\* node keys exactly the nodes reachable from its graph's roots.
C13_FilterConsistent ==
    Filtered => KeyNodes(gf.dataframe) = Reachable(gf.graph)

\* C13, amended: with squash=True the returned frame's table node keys are
\* exactly the nodes reachable from its roots; with squash=False the frame is
\* on the unchanged graph and its table holds the rows of the kept nodes
\* only, a subset of the reachable nodes.
C13_FilterConsistentWhenSquashed ==
    /\ (Filtered /\ ret.squash)
          => KeyNodes(gf.dataframe) = Reachable(gf.graph)
    /\ (Filtered /\ ~ ret.squash)
          => /\ gf.graph = pre.graph
             /\ KeyNodes(gf.dataframe) = ret.keep
             /\ KeyNodes(gf.dataframe) \subseteq Reachable(gf.graph)
             /\ \A k \in Keys(gf.dataframe) : gf.dataframe.rows[k] = pre.dataframe.rows[k]

\* filter(squash=True) dropped the rows of a node with two parents and of a
\* root, and the frame returned has fewer nodes than the graph had
C13_Witness ==
    /\ Filtered /\ ret.squash
    /\ ret.keep # Nodes
    /\ \E n \in Nodes \ ret.keep : Len(pre.graph.parents[n]) = 2
    /\ \E n \in Nodes \ ret.keep : pre.graph.parents[n] = <<>>
    /\ Cardinality(Reachable(gf.graph)) < Cardinality(Reachable(pre.graph))
    /\ Cardinality(Reachable(gf.graph)) > 1

(***************************************************************************)
(* Further properties of squash.                                           *)
(***************************************************************************)
SquashedEmpty == op = "squash" /\ Retained(pre) = {}

\* C14: squash() on a frame whose table has no rows ends in the EmptySquash
\* error and returns no frame.
C14_EmptySquashIsError == SquashedEmpty => ret.err = "EmptySquash"

\* what squash() does on a table with no rows: it returns, without an
\* error, a frame with no roots and no rows
C14_EmptySquashReturnsEmptyGraph ==
    SquashedEmpty =>
        /\ ret.err = "none"
        /\ gf.graph.roots = <<>>
        /\ GraphNodes(gf.graph) = {}
        /\ Keys(gf.dataframe) = {}
        /\ gf.gid # pre.gid

(***************************************************************************)
(* Properties of the sums called with column lists of different lengths.   *)
(***************************************************************************)
LengthMismatch ==
    /\ op \in {"subtree_sum", "subgraph_sum"}
    /\ ret.args[2] # None
    /\ Len(ret.args[1]) # Len(ret.args[2])

\* C15: subtree_sum and subgraph_sum called with column lists of different
\* lengths fail with the length error and leave the table as it was: no
\* output column created or overwritten.
C15_LengthMismatchLeavesTable ==
    LengthMismatch => /\ ret.err = "ValueError"
                      /\ gf.dataframe = pre.dataframe

\* the part of C15 that the code keeps: the call fails, and the rows and the
\* columns that are not among out_columns keep their values
C15_LengthMismatchFails ==
    LengthMismatch =>
        /\ ret.err = "ValueError"
        /\ Keys(gf.dataframe) = Keys(pre.dataframe)
        /\ \A k \in Keys(pre.dataframe) :
              \A c \in pre.dataframe.columns \ Range(ret.args[2]) :
                 Cell(gf, k, c) = Cell(pre, k, c)

(***************************************************************************)
(* Properties of subgraph_sum storing its results in place.                *)
(***************************************************************************)
InPlaceGeneralSum ==
    SumDone("subgraph_sum") /\ ret.args[2] = None /\ ~ IsTree(pre.graph)

\* C16: subgraph_sum with out_columns=None on a graph that is not a tree
\* leaves at every row the sum of the ORIGINAL values of the column over the
\* row's node and its distinct descendants.
C16_InPlaceSumOfOriginals ==
    InPlaceGeneralSum =>
        \A k \in Keys(gf.dataframe) :
            Cell(gf, k, "time") = InclusiveAt(pre, k, "time")

\* C16 where the traversal reaches every node before any of its
\* descendants: there the in-place sums are those of the original values
C16_InPlaceWhenAncestorsFirst ==
    (/\ InPlaceGeneralSum
     /\ \A n \in Nodes : \A d \in ProperDesc(pre.graph, n) :
           Position(GraphTraverse(pre.graph), n)
              < Position(GraphTraverse(pre.graph), d)) =>
        \A k \in Keys(gf.dataframe) :
            Cell(gf, k, "time") = InclusiveAt(pre, k, "time")

(***************************************************************************)
(* Properties of the roots squash() makes.                                 *)
(***************************************************************************)
\* the retained proper ancestors of v in graph g
RetainedAncestors(g, R, v) == {u \in R : v \in ProperDesc(g, u)}

\* the retained nodes reached from an old root through removed nodes only
RootFrontier(g, R) == Frontier(g, R, Range(g.roots))

NoDuplicates(list) ==
    \A i \in DOMAIN list, j \in DOMAIN list : list[i] = list[j] => i = j

\* the copy of v is linked under exactly the copies of its nearest retained
\* ancestors
LinkedUnderNearest(g, R, o2n, v) ==
    Range(rew.parents[o2n[v]]) = {o2n[u] : u \in {w \in R : v \in ElidedChildren(g, R, w)}}

CollapsedOnto(nk) ==
    {k \in Keys(pre.dataframe) : <<ret.rekey[k[1]]>> \o Tail(k) = nk}

ColumnTotal(f, c) ==
    SetSum([k \in Keys(f.dataframe) |-> Cell(f, k, c)], Keys(f.dataframe))

\* C18: after squash() every retained old node is mapped to a node of the
\* new graph with its frame, the exclusive metric at every row of the new
\* table is the sum of the metric over the old rows mapped to it, and the
\* total of the metric over the new table is its total over the old one.
C18_CollapsedMetricsAreSummed ==
    Squashed =>
        /\ \A n \in Retained(pre) :
              /\ ret.rekey[n] \in GraphNodes(gf.graph)
              /\ gf.graph.frame[ret.rekey[n]] = pre.graph.frame[n]
        /\ Keys(gf.dataframe)
              = {<<ret.rekey[k[1]]>> \o Tail(k) : k \in Keys(pre.dataframe)}
        /\ \A nk \in Keys(gf.dataframe) :
              Cell(gf, nk, "time")
                 = SetSum([k \in CollapsedOnto(nk) |-> Cell(pre, k, "time")],
                          CollapsedOnto(nk))
        /\ ColumnTotal(gf, "time") = ColumnTotal(pre, "time")

\* a squash that removed a node and thereby made three retained nodes with
\* one frame siblings: one row of the new table carries the sum of three
\* old rows
C18_Witness ==
    /\ Squashed
    /\ Retained(pre) # GraphNodes(pre.graph)
    /\ \E nk \in Keys(gf.dataframe) :
          /\ Cardinality(CollapsedOnto(nk)) = 3
          /\ Cell(gf, nk, "time")
                = SetSum([k \in CollapsedOnto(nk) |-> Cell(pre, k, "time")],
                         CollapsedOnto(nk))
          /\ \A k \in CollapsedOnto(nk) : Cell(gf, nk, "time") > Cell(pre, k, "time")
    /\ ColumnTotal(gf, "time") = ColumnTotal(pre, "time")

(***************************************************************************)
(* Properties of the graph groupby_aggregate makes.                        *)
(***************************************************************************)
\* some old edge leads from a node of super node S to a node of super node T
OldEdgeBetween(S, T) ==
    \E u \in Members(S), v \in Members(T) : v \in ChildSet(pre.graph, u)

SuperEdgesRemapped ==
    /\ ret.err = "none"
    /\ \A S \in GraphNodes(gf.graph), T \in GraphNodes(gf.graph) :
          S # T => ((T \in ChildSet(gf.graph, S)) <=> OldEdgeBetween(S, T))
    /\ \A S \in GraphNodes(gf.graph) :
          /\ NoDuplicates(gf.graph.children[S])
          /\ NoDuplicates(gf.graph.parents[S])
          /\ S \notin ChildSet(gf.graph, S)
          /\ S \notin Range(gf.graph.parents[S])
    /\ NoDuplicates(gf.graph.roots)
    /\ Range(gf.graph.roots)
          = {S \in GraphNodes(gf.graph) :
               \E u \in Members(S) : pre.graph.parents[u] = <<>>}

\* C19: in the graph groupby_aggregate returns, for distinct super nodes S
\* and T, T is a child of S iff some old edge leads from a node of S to a
\* node of T; every such edge is there once, no super node is its own child
\* or parent, and the roots are the super nodes with a parentless old node.
C19_SuperEdges == Grouped => SuperEdgesRemapped

\* C19 for tables keyed by node alone
C19_NodeKeyedSuperEdges == (Grouped /\ NodeKeyed(pre)) => SuperEdgesRemapped

\* a grouping of five nodes into two groups with old edges inside a group,
\* several old edges from one group to the other, and edges both ways
C19_NodeKeyedReached ==
    /\ Grouped /\ NodeKeyed(pre) /\ ret.err = "none"
    /\ Cardinality(GraphNodes(gf.graph)) = 2
    /\ \E S \in GraphNodes(gf.graph), T \in GraphNodes(gf.graph) :
          /\ S # T
          /\ OldEdgeBetween(S, S)
          /\ OldEdgeBetween(T, S)
          /\ Cardinality({e \in Members(S) \X Members(T) :
                            e[2] \in ChildSet(pre.graph, e[1])}) >= 2
          /\ gf.graph.children[S] = <<T>>
          /\ gf.graph.children[T] = <<S>>

(***************************************************************************)
(* Parent/child symmetry of the graphs squash() and groupby_aggregate()    *)
(* build.                                                                  *)
(***************************************************************************)
\* c is in p.children iff p is in c.parents, and every edge ends at a node
\* of the graph
Symmetric(g) ==
    /\ \A p \in GraphNodes(g) :
          /\ Range(g.children[p]) \subseteq GraphNodes(g)
          /\ Range(g.parents[p]) \subseteq GraphNodes(g)
    /\ \A p \in GraphNodes(g), c \in GraphNodes(g) :
          (c \in Range(g.children[p])) <=> (p \in Range(g.parents[c]))

\* C20: in every graph built by squash(), before and after normalize(), and
\* in every graph built by groupby_aggregate(), c is in p.children iff p is
\* in c.parents.
C20_ParentChildSymmetry ==
    /\ Squashed => (Symmetric(rew) /\ Symmetric(gf.graph))
    /\ (Grouped /\ ret.err = "none") => Symmetric(gf.graph)

\* squash() removed a node of a DAG and left a node with two parents
C20_SquashReached ==
    /\ Squashed
    /\ Retained(pre) # GraphNodes(pre.graph)
    /\ \E c \in GraphNodes(gf.graph) : Len(gf.graph.parents[c]) = 2
    /\ Symmetric(gf.graph)

\* groupby_aggregate built a graph with an edge between two super nodes, and
\* squash() built another graph with an edge from that one
C20_Witness ==
    /\ Squashed
    /\ "nid" \in pre.dataframe.columns
    /\ \E p \in GraphNodes(pre.graph) : pre.graph.children[p] # <<>>
    /\ \E c \in GraphNodes(gf.graph) : gf.graph.parents[c] # <<>>
    /\ Symmetric(pre.graph)
    /\ Symmetric(gf.graph)

(***************************************************************************)
(* Acyclicity of the graphs squash() and groupby_aggregate() return.       *)
(***************************************************************************)
\* no node is its own proper descendant
Acyclic(g) == \A n \in GraphNodes(g) : n \notin ProperDesc(g, n)

RootsParentless(g) == \A i \in DOMAIN g.roots : g.parents[g.roots[i]] = <<>>

\* squash() or groupby_aggregate() returned a frame for a frame whose graph
\* had no directed cycle
RewroteAcyclic ==
    /\ Squashed \/ (Grouped /\ ret.err = "none")
    /\ Acyclic(pre.graph)

\* C21: for every acyclic input graph the graph squash() returns and the
\* graph groupby_aggregate() returns have no directed cycle and no root
\* with a parent.
C21_RewritesKeepAcyclic ==
    RewroteAcyclic => (Acyclic(gf.graph) /\ RootsParentless(gf.graph))

\* what squash() keeps of C21: the graph rewire builds from an acyclic graph
\* is acyclic, and so is the graph returned when no two old nodes share a
\* frame (normalize() then merges nothing)
C21_RewireKeepsAcyclic ==
    (Squashed /\ Acyclic(pre.graph)) =>
        /\ Acyclic(rew)
        /\ IsInjective(pre.graph.frame) => Acyclic(gf.graph)

\* groupby_aggregate on the chain 1 -> 2 -> 3 with nodes 1 and 3 in one
\* group and node 2 in the other returns two super nodes that are each
\* other's child, the root among them with a parent
C21_GroupedChainIsCycle ==
    /\ Grouped /\ ret.err = "none"
    /\ Acyclic(pre.graph) /\ IsTree(pre.graph)
    /\ pre.graph.children[1] = <<2>> /\ pre.graph.children[2] = <<3>>
    /\ Cell(pre, <<1>>, "module") = Cell(pre, <<3>>, "module")
    /\ Cell(pre, <<1>>, "module") # Cell(pre, <<2>>, "module")
    /\ ~ Acyclic(gf.graph)
    /\ ~ RootsParentless(gf.graph)

====
